---- MODULE Spec2Model ----
(***************************************************************************)
(* A model of src/src/main.rs (the `rs` source-tree printer): the content  *)
(* extractor filter_and_print_content, the filter matches_type_filter, the *)
(* sorter sort_entries and the walker print_tree.                          *)
(*                                                                         *)
(* Strings are sequences of one-character strings, so that starts_with,    *)
(* slicing, contains, Path::extension and the byte-wise cmp are computed   *)
(* rather than assumed.  Option<T> is a sequence of length 0 (None) or 1   *)
(* (Some).  What the program prints is a sequence of event records; the    *)
(* decoration of a printed line (prefix, icons, colours, the bare rule     *)
(* lines) is left out, the order and the content of the events is kept;    *)
(* stdout and stderr are one stream.                                       *)
(***************************************************************************)
EXTENDS Integers, Sequences, FiniteSets, TLC

VARIABLES
    config,     \* the Config struct (the fields the core reads)
    lines,      \* the lines of the file handed to filter_and_print_content
    openable,   \* whether fs::File::open succeeds on that file
    entry,      \* the path handed to matches_type_filter, as the file system shows it
    listing,    \* the Vec<DirEntryExt> as pushed, in encounter order
    entries,    \* the Vec<DirEntryExt> that sort_entries sorts in place
    fs,         \* the file system under project_dir: node -> what the calls return
    stack,      \* the call stack of print_tree, innermost frame first
    out,        \* what has been printed (or returned) so far
    read_dirs,  \* the calls of fs::read_dir so far, in order
    pc          \* where the program is

vars == <<config, lines, openable, entry, listing, entries, fs, stack, out,
          read_dirs, pc>>

----------------------------------------------------------------------------
(* Option<T> *)

None == <<>>
Some(x) == <<x>>
IsSome(o) == Len(o) = 1
Unwrap(o) == o[1]
UnwrapOr(o, d) == IF IsSome(o) THEN o[1] ELSE d

Min(a, b) == IF a <= b THEN a ELSE b

(* str::starts_with, str::contains and &s[n..] *)
StartsWith(s, p) == Len(s) >= Len(p) /\ SubSeq(s, 1, Len(p)) = p
Contains(s, p) == \E i \in 0..(Len(s) - Len(p)) : SubSeq(s, i + 1, i + Len(p)) = p
SliceFrom(s, n) == SubSeq(s, n + 1, Len(s))

----------------------------------------------------------------------------
(* The string literals of the model. *)

\* line texts and patterns of the content extractor
Str_foo == <<"f","o","o">>
Str_TODO_fix == <<"T","O","D","O"," ","f","i","x">>
Str_TODO == <<"T","O","D","O">>
Str_xyz == <<"x","y","z">>

\* the prefixes and keywords of matches_type_filter
Str_ext_ == <<"e","x","t",":">>
Str_group_ == <<"g","r","o","u","p",":">>
Str_binary == <<"b","i","n","a","r","y">>
Str_text == <<"t","e","x","t">>
Str_dir == <<"d","i","r">>
Str_hidden == <<"h","i","d","d","e","n">>
Str_empty == <<"e","m","p","t","y">>
Str_all == <<"a","l","l">>
Str_socket == <<"s","o","c","k","e","t">>
Str_pipe == <<"p","i","p","e">>
Str_symlink == <<"s","y","m","l","i","n","k">>
Str_device == <<"d","e","v","i","c","e">>
Str_executable == <<"e","x","e","c","u","t","a","b","l","e">>
Str_archive == <<"a","r","c","h","i","v","e">>

\* media types and the substrings the program looks for in them
Str_octet_stream == <<"a","p","p","l","i","c","a","t","i","o","n","/","o","c","t","e","t","-","s","t","r","e","a","m">>
Str_text_ == <<"t","e","x","t","/">>
Str_zip == <<"z","i","p">>
Str_x_tar == <<"x","-","t","a","r">>
Str_x_gzip == <<"x","-","g","z","i","p">>
Str_text_plain == <<"t","e","x","t","/","p","l","a","i","n">>
Str_application_zip == <<"a","p","p","l","i","c","a","t","i","o","n","/","z","i","p">>
Str_inode_directory == <<"i","n","o","d","e","/","d","i","r","e","c","t","o","r","y">>

\* filters the model draws beside the bare keywords
Str_ext_py == <<"e","x","t",":","p","y">>
Str_ext_none == <<"e","x","t",":">>
Str_group_web == <<"g","r","o","u","p",":","w","e","b">>
Str_group_nosuch == <<"g","r","o","u","p",":","n","o","s","u","c","h">>
Str_bogus == <<"b","o","g","u","s">>

\* file names
Str_a_py == <<"a",".","p","y">>
Str_b_txt == <<"b",".","t","x","t">>
Str_c_py == <<"c",".","p","y">>
Str_d_py == <<"d",".","p","y">>
Str_sub == <<"s","u","b">>
Str_deep == <<"d","e","e","p">>
Str_lnk == <<"l","n","k">>
Str_x_html == <<".","x",".","h","t","m","l">>
Str_hidden_file == <<".","h","i","d","d","e","n">>

----------------------------------------------------------------------------
(* Bounds of the model. *)

\* the longest file handed to the content extractor
MaxLines == 10
\* the largest --context
MaxContext == 2
\* the longest list of -t filters handed to matches_type_filter on its own
MaxFilters == 2
\* the longest listing handed to sort_entries on its own
MaxEntries == 3
\* the largest --depth the walk is run with
MaxDepth == 2

----------------------------------------------------------------------------
(* filter_and_print_content *)

\* Regex::is_match for the literal patterns the model draws: an unanchored
\* literal matches a line exactly when the line contains it.
RegexIsMatch(regex, line) == Contains(line, regex)

\* the events filter_and_print_content prints
Event(kind, num, is_match) == [kind |-> kind, num |-> num, is_match |-> is_match]
CannotRead == Event("cannot_read", 0, FALSE)
TotalLines(n) == Event("total_lines", n, FALSE)
NoMatches == Event("no_matches", 0, FALSE)

\* format_line: one printed line, with its number and its match marker
FormatLine(line_num, is_match) == Event("line", line_num, is_match)

\* print_separator: the elision marker
PrintSeparator == <<Event("separator", 0, FALSE)>>

\* for i in 1..=total_lines: push i when the line matches
RECURSIVE ScanMatches(_, _, _)
ScanMatches(file_lines, regex, i) ==
    IF i > Len(file_lines) THEN <<>>
    ELSE (IF RegexIsMatch(regex, file_lines[i]) THEN <<i>> ELSE <<>>)
         \o ScanMatches(file_lines, regex, i + 1)

\* pattern None: every line, none marked
PlainLoop(file_lines) ==
    [i \in 1..Len(file_lines) |-> FormatLine(i, FALSE)]

\* a faulty variant of WholeFileLoop: only the matching lines are printed
WholeFileLoopMatchesOnly(file_lines, regex) ==
    LET m == ScanMatches(file_lines, regex, 1)
    IN [k \in 1..Len(m) |-> FormatLine(m[k], TRUE)]

\* whole_file: every line, marked when the line itself matches
WholeFileLoop(file_lines, regex) ==
    [i \in 1..Len(file_lines) |-> FormatLine(i, RegexIsMatch(regex, file_lines[i]))]

\* start of the window of a match, saturating at line 1
WindowStart(match_num, context_num) ==
    IF match_num > context_num THEN match_num - context_num ELSE 1

\* end of the window of a match, clamped to the file
WindowEnd(match_num, context_num, total_lines) ==
    Min(match_num + context_num, total_lines)

\* the windowed loop: one window per match, after the k-1 first matches
RECURSIVE WindowLoop(_, _, _, _, _)
WindowLoop(matches, k, context_num, total_lines, prev_end) ==
    IF k > Len(matches) THEN <<>>
    ELSE LET match_num == matches[k]
             start == WindowStart(match_num, context_num)
             end == WindowEnd(match_num, context_num, total_lines)
         IN (IF start > prev_end + 1 THEN PrintSeparator ELSE <<>>)
            \o [j \in 1..(end - start + 1) |->
                    FormatLine(start + j - 1, start + j - 1 = match_num)]
            \o WindowLoop(matches, k + 1, context_num, total_lines, end)

\* everything filter_and_print_content prints
FilterAndPrintContent(open_ok, file_lines, pattern, context, whole_file) ==
    IF ~open_ok THEN <<CannotRead>>
    ELSE <<TotalLines(Len(file_lines))>> \o
         (IF ~IsSome(pattern) THEN PlainLoop(file_lines)
          ELSE LET regex == Unwrap(pattern)
                   matches == ScanMatches(file_lines, regex, 1)
               IN IF matches = <<>> THEN <<NoMatches>>
                  ELSE IF whole_file THEN WholeFileLoop(file_lines, regex)
                  ELSE WindowLoop(matches, 1, context, Len(file_lines), 0))

----------------------------------------------------------------------------
(* matches_type_filter *)

\* What the file system answers about one path:
\*   name      the file name (Path::file_name)
\*   lstat     DirEntry::metadata, which does not follow a symlink: Option<Metadata>
\*   stat      Path::metadata, which follows symlinks: Option<Metadata>
\*   mime      tree_magic_mini::from_filepath: Option<String>
\*   read_dir  fs::read_dir: Option of the file names it yields (the entries
\*             for which entry_res is Ok), in its order
\*   content   fs::File::open and BufRead::lines: Option of the file's lines
\* and a Metadata is [file_type, len, mode, modified: Option<time>].
Metadata(t, len, mode, modified) ==
    [file_type |-> t, len |-> len, mode |-> mode, modified |-> modified]
FileRec(name, lstat, stat, mime, read_dir, content) ==
    [name |-> name, lstat |-> lstat, stat |-> stat, mime |-> mime,
     read_dir |-> read_dir, content |-> content]

\* 0o111, the execute permission bits
ExecBits == 73

RECURSIVE BitAnd(_, _)
BitAnd(a, b) ==
    IF a = 0 \/ b = 0 THEN 0
    ELSE (a % 2) * (b % 2) + 2 * BitAnd(a \div 2, b \div 2)

\* Path::extension: nothing when the name has no '.', or only a leading
\* one; otherwise what follows the last '.'
LastDot(name) ==
    LET dots == {i \in 1..Len(name) : name[i] = "."}
    IN IF dots = {} THEN 0 ELSE CHOOSE i \in dots : \A j \in dots : j <= i
Extension(name) ==
    IF LastDot(name) <= 1 THEN None ELSE Some(SliceFrom(name, LastDot(name)))

\* tree_magic_mini::from_filepath(path).unwrap_or("application/octet-stream")
MimeOf(f) == UnwrapOr(f.mime, Str_octet_stream)

\* is_executable_file
IsExecutableFile(f) ==
    IF IsSome(f.stat) THEN BitAnd(Unwrap(f.stat).mode, ExecBits) # 0 ELSE FALSE

\* file_type_groups: group name -> its extensions
FileTypeGroups ==
       (<<"w","e","b">> :>
          <<<<"h","t","m","l">>, <<"h","t","m">>, <<"c","s","s">>, <<"s","c","s","s">>,
            <<"l","e","s","s">>, <<"j","s">>, <<"j","s","x">>, <<"t","s">>, <<"t","s","x">>>>)
    @@ (<<"d","o","c","s">> :>
          <<<<"m","d">>, <<"t","x","t">>, <<"p","d","f">>, <<"d","o","c">>,
            <<"d","o","c","x">>, <<"o","d","t">>, <<"r","t","f">>>>)
    @@ (<<"i","m","a","g","e","s">> :>
          <<<<"j","p","g">>, <<"j","p","e","g">>, <<"p","n","g">>, <<"g","i","f">>,
            <<"s","v","g">>, <<"w","e","b","p">>, <<"b","m","p">>>>)
    @@ (<<"c","o","d","e">> :>
          <<<<"p","y">>, <<"j","a","v","a">>, <<"c","p","p">>, <<"c">>, <<"h">>,
            <<"h","p","p">>, <<"c","s">>, <<"g","o">>, <<"r","s">>, <<"p","h","p">>,
            <<"r","b">>, <<"p","l">>, <<"s","c","a","l","a">>, <<"k","t">>,
            <<"s","w","i","f","t">>>>)
    @@ (<<"c","o","n","f","i","g">> :>
          <<<<"j","s","o","n">>, <<"y","a","m","l">>, <<"y","m","l">>, <<"t","o","m","l">>,
            <<"i","n","i">>, <<"c","o","n","f">>, <<"x","m","l">>>>)
    @@ (<<"d","a","t","a">> :>
          <<<<"c","s","v">>, <<"s","q","l">>, <<"d","b">>, <<"s","q","l","i","t","e">>>>)
    @@ (<<"s","c","r","i","p","t">> :>
          <<<<"s","h">>, <<"b","a","s","h">>, <<"z","s","h">>, <<"f","i","s","h">>,
            <<"p","s","1">>, <<"b","a","t">>, <<"c","m","d">>>>)

\* the locals matches_type_filter computes before its loop
Classify(f, is_dir) ==
    LET metadata == Unwrap(f.stat)
        file_type == metadata.file_type
        mime == MimeOf(f)
    IN [name |-> f.name,
        size |-> metadata.len,
        is_symlink |-> file_type = "symlink",
        is_socket |-> file_type = "socket",
        is_pipe |-> file_type = "fifo",
        is_device |-> file_type = "block" \/ file_type = "char",
        is_executable |-> ~is_dir /\ IsExecutableFile(f),
        mime |-> mime,
        is_text |-> ~is_dir /\ StartsWith(mime, Str_text_),
        ext |-> UnwrapOr(Extension(f.name), <<>>)]

\* the body of the loop: whether this filter makes the function return true
OneFilter(c, filter, is_dir) ==
    IF StartsWith(filter, Str_ext_)
    THEN c.ext = SliceFrom(filter, 4)
    ELSE IF StartsWith(filter, Str_group_)
    THEN LET group == SliceFrom(filter, 6)
         IN /\ group \in DOMAIN FileTypeGroups
            /\ \E k \in 1..Len(FileTypeGroups[group]) : FileTypeGroups[group][k] = c.ext
    ELSE CASE filter = Str_binary -> ~is_dir /\ ~c.is_text
           [] filter = Str_text -> ~is_dir /\ c.is_text
           [] filter = Str_dir -> is_dir
           [] filter = Str_hidden -> StartsWith(c.name, <<".">>)
           [] filter = Str_empty -> ~is_dir /\ c.size = 0
           [] filter = Str_all -> TRUE
           [] filter = Str_socket -> c.is_socket
           [] filter = Str_pipe -> c.is_pipe
           [] filter = Str_symlink -> c.is_symlink
           [] filter = Str_device -> c.is_device
           [] filter = Str_executable -> c.is_executable
           [] filter = Str_archive ->
                \/ Contains(c.mime, Str_zip)
                \/ Contains(c.mime, Str_x_tar)
                \/ Contains(c.mime, Str_x_gzip)
           [] OTHER -> FALSE

\* a faulty variant of FilterLoop: only the first filter is looked at
FilterLoopFirstOnly(c, filters, i, is_dir) ==
    i <= Len(filters) /\ OneFilter(c, filters[i], is_dir)

\* for filter in filters: return true at the first one that matches
RECURSIVE FilterLoop(_, _, _, _)
FilterLoop(c, filters, i, is_dir) ==
    IF i > Len(filters) THEN FALSE
    ELSE IF OneFilter(c, filters[i], is_dir) THEN TRUE
    ELSE FilterLoop(c, filters, i + 1, is_dir)

MatchesTypeFilter(f, filters, is_dir) ==
    IF filters = <<>> THEN TRUE
    ELSE IF ~IsSome(f.stat) THEN FALSE
    ELSE FilterLoop(Classify(f, is_dir), filters, 1, is_dir)

----------------------------------------------------------------------------
(* sort_entries *)

\* struct DirEntryExt; a path is the sequence of file names below project_dir
DirEntryExt(path, is_dir, size, modified, ext, filetype_desc) ==
    [path |-> path, is_dir |-> is_dir, size |-> size, modified |-> modified,
     ext |-> ext, filetype_desc |-> filetype_desc]

\* Path::file_name: the last component
FileName(path) == IF path = <<>> THEN None ELSE Some(path[Len(path)])

\* std::time::UNIX_EPOCH
UNIX_EPOCH == 0

\* the characters of the model's strings, in the order of their bytes
Alphabet ==
    <<" ", "-", ".", "/", "0", "1", "2", "3", "4", "5", "6", "7", "8", "9", ":",
      "A", "B", "C", "D", "E", "F", "G", "H", "I", "J", "K", "L", "M", "N", "O",
      "P", "Q", "R", "S", "T", "U", "V", "W", "X", "Y", "Z", "_",
      "a", "b", "c", "d", "e", "f", "g", "h", "i", "j", "k", "l", "m", "n", "o",
      "p", "q", "r", "s", "t", "u", "v", "w", "x", "y", "z">>
Byte(c) == CHOOSE i \in 1..Len(Alphabet) : Alphabet[i] = c

\* Ord::cmp on integers, booleans (false < true), strings (byte-wise,
\* a proper prefix first) and Option<String> (None first)
CmpInt(a, b) == IF a < b THEN "Less" ELSE IF a > b THEN "Greater" ELSE "Equal"
CmpBool(a, b) == CmpInt(IF a THEN 1 ELSE 0, IF b THEN 1 ELSE 0)
RECURSIVE CmpStr(_, _)
CmpStr(a, b) ==
    IF a = <<>> /\ b = <<>> THEN "Equal"
    ELSE IF a = <<>> THEN "Less"
    ELSE IF b = <<>> THEN "Greater"
    ELSE IF Head(a) # Head(b) THEN CmpInt(Byte(Head(a)), Byte(Head(b)))
    ELSE CmpStr(Tail(a), Tail(b))
CmpOptStr(a, b) ==
    IF ~IsSome(a) /\ ~IsSome(b) THEN "Equal"
    ELSE IF ~IsSome(a) THEN "Less"
    ELSE IF ~IsSome(b) THEN "Greater"
    ELSE CmpStr(Unwrap(a), Unwrap(b))

\* the key comparison of the closure
KeyCmp(a, b, sort_by) ==
    CASE sort_by = "Name" -> CmpOptStr(FileName(a.path), FileName(b.path))
      [] sort_by = "Date" ->
            CmpInt(UnwrapOr(a.modified, UNIX_EPOCH), UnwrapOr(b.modified, UNIX_EPOCH))
      [] sort_by = "Size" -> CmpInt(a.size, b.size)
      [] sort_by = "Type" -> CmpStr(a.filetype_desc, b.filetype_desc)
      [] sort_by = "Ext" -> CmpOptStr(a.ext, b.ext)

\* dir_cmp of the closure
DirCmp(a, b, dirs_first) ==
    IF dirs_first THEN CmpBool(a.is_dir, b.is_dir) ELSE "Equal"

\* the closure handed to sort_by
Compare(a, b, sort_by, dirs_first) ==
    IF DirCmp(a, b, dirs_first) # "Equal"
    THEN DirCmp(a, b, dirs_first)
    ELSE KeyCmp(a, b, sort_by)

\* a faulty variant of InsertStable: an element goes in front of the elements
\* before it that are equal to it, so ties come out in reverse order
InsertBeforeEqual(sorted, x, sort_by, dirs_first) ==
    LET k == Cardinality({i \in 1..Len(sorted) :
                             Compare(sorted[i], x, sort_by, dirs_first) = "Less"})
    IN SubSeq(sorted, 1, k) \o <<x>> \o SubSeq(sorted, k + 1, Len(sorted))

\* slice::sort_by is a stable sort: an element goes behind the elements
\* before it that are not greater
InsertStable(sorted, x, sort_by, dirs_first) ==
    LET k == Cardinality({i \in 1..Len(sorted) :
                             Compare(sorted[i], x, sort_by, dirs_first) # "Greater"})
    IN SubSeq(sorted, 1, k) \o <<x>> \o SubSeq(sorted, k + 1, Len(sorted))
RECURSIVE SortBy(_, _, _)
SortBy(s, sort_by, dirs_first) ==
    IF s = <<>> THEN <<>>
    ELSE \* the sorted prefix and the last element, each computed once
         CHOOSE r \in {InsertStable(sorted, x, sort_by, dirs_first) :
                          sorted \in {SortBy(SubSeq(s, 1, Len(s) - 1), sort_by, dirs_first)},
                          x \in {s[Len(s)]}} : TRUE

\* slice::reverse
Reverse(s) == [i \in 1..Len(s) |-> s[Len(s) + 1 - i]]

SortEntries(s, sort_by, direction, dirs_first) ==
    IF direction = "Desc"
    THEN Reverse(SortBy(s, sort_by, dirs_first))
    ELSE SortBy(s, sort_by, dirs_first)

----------------------------------------------------------------------------
(* print_tree *)

\* what print_tree prints about a path
Printed(kind, path) == [kind |-> kind, path |-> path]
ErrorReading(dir) == Printed("error_reading_directory", dir)
DirLine(path) == Printed("dir", path)
FileLine(path) == Printed("file", path)
ContentStart(path) == Printed("content_start", path)
ContentEnd(path) == Printed("content_end", path)
NotDisplayed(path) == Printed("file_not_displayed", path)

\* a faulty variant of DepthExceeded: 0 is not taken as unlimited
DepthExceededNoUnlimited(max_depth, current_depth) ==
    current_depth > max_depth

\* the test print_tree starts with
DepthExceeded(max_depth, current_depth) ==
    max_depth # 0 /\ current_depth > max_depth

\* a faulty variant of IsExcluded: the exclude list is not looked at
IsExcludedNever(exclude_dirs, file_name) == FALSE

\* config.exclude_dirs.contains(&file_name_str.to_string())
IsExcluded(exclude_dirs, file_name) ==
    \E k \in 1..Len(exclude_dirs) : exclude_dirs[k] = file_name

\* is_text_file
IsTextFile(f) == StartsWith(MimeOf(f), Str_text_)

\* the body of `for entry_res in read_dir`: what the entry adds to entries
ScanEntry(F, cfg, dir, file_name) ==
    LET path == Append(dir, file_name)
        f == F[path]
    IN IF IsExcluded(cfg.exclude_dirs, file_name) THEN <<>>
       ELSE IF ~IsSome(f.lstat) THEN <<>>
       ELSE LET metadata == Unwrap(f.lstat)
                is_dir == metadata.file_type = "dir"
            IN IF ~MatchesTypeFilter(f, cfg.file_types, is_dir) THEN <<>>
               ELSE <<DirEntryExt(path, is_dir,
                                  IF ~is_dir THEN metadata.len ELSE 0,
                                  metadata.modified,
                                  Extension(file_name),
                                  MimeOf(f))>>

\* the loop over read_dir, from its i-th entry on
RECURSIVE ScanDir(_, _, _, _, _)
ScanDir(F, cfg, dir, names, i) ==
    IF i > Len(names) THEN <<>>
    ELSE ScanEntry(F, cfg, dir, names[i]) \o ScanDir(F, cfg, dir, names, i + 1)

\* entries, after the loop and sort_entries
SortedEntries(F, cfg, dir) ==
    \* entries is built once, then sorted
    CHOOSE es \in {SortEntries(scanned, cfg.sort_by, cfg.sort_direction,
                                cfg.sort_dirs_first) :
                       scanned \in {ScanDir(F, cfg, dir, Unwrap(F[dir].read_dir), 1)}} : TRUE

\* a faulty variant of PrintFile: the size of the file is not looked at
PrintFileNoSizeBound(F, cfg, e) ==
    LET f == F[e.path]
    IN <<FileLine(e.path)>> \o
       (IF cfg.show_content /\ IsTextFile(f)
        THEN <<ContentStart(e.path)>>
             \o FilterAndPrintContent(IsSome(f.content), UnwrapOr(f.content, <<>>),
                                      cfg.content_filter, cfg.content_context,
                                      cfg.whole_file)
             \o <<ContentEnd(e.path)>>
        ELSE <<>>)

\* what the loop over entries prints for a file
PrintFile(F, cfg, e) ==
    LET f == F[e.path]
    IN <<FileLine(e.path)>> \o
       (IF cfg.show_content /\ e.size <= cfg.max_file_size /\ IsTextFile(f)
        THEN <<ContentStart(e.path)>>
             \o FilterAndPrintContent(IsSome(f.content), UnwrapOr(f.content, <<>>),
                                      cfg.content_filter, cfg.content_context,
                                      cfg.whole_file)
             \o <<ContentEnd(e.path)>>
        ELSE IF cfg.show_content /\ e.size > cfg.max_file_size
        THEN <<NotDisplayed(e.path)>>
        ELSE <<>>)

\* print_tree as a function: everything the call prints
RECURSIVE PrintTree(_, _, _, _)
RECURSIVE PrintEntries(_, _, _, _, _)
PrintTree(F, cfg, dir, current_depth) ==
    IF DepthExceeded(cfg.max_depth, current_depth) THEN <<>>
    ELSE IF ~IsSome(F[dir].read_dir) THEN <<ErrorReading(dir)>>
    ELSE PrintEntries(F, cfg, SortedEntries(F, cfg, dir), 1, current_depth)
PrintEntries(F, cfg, es, i, current_depth) ==
    IF i > Len(es) THEN <<>>
    ELSE (IF es[i].is_dir
          THEN <<DirLine(es[i].path)>>
               \o PrintTree(F, cfg, es[i].path, current_depth + 1)
          ELSE PrintFile(F, cfg, es[i]))
         \o PrintEntries(F, cfg, es, i + 1, current_depth)

\* print_tree step by step: a frame of the call stack is the directory, the
\* depth, where the call is ("enter": before the depth test; "loop": in the
\* loop over entries) and the entries the loop has still to print
Frame(dir, current_depth, at, es) ==
    [dir |-> dir, current_depth |-> current_depth, at |-> at, entries |-> es]

\* a faulty variant of ReturnFromReadError: the whole walk ends
AbortWalk(stk) == <<>>

\* a call of fs::read_dir: on which directory, and for what ("entries": the
\* listing print_tree walks; "count": the number of items of a directory line)
ReadDir(dir, purpose) == [dir |-> dir, purpose |-> purpose]

\* a faulty variant of ItemCount: the items are counted under every sort key
ItemCountAlways(sort_by, path) == <<ReadDir(path, "count")>>

\* dir_info: under SortField::Size the directory is read once more, to count
\* its items
ItemCount(sort_by, path) ==
    IF sort_by = "Size" THEN <<ReadDir(path, "count")>> ELSE <<>>

\* `return` after a failed read_dir: back to the caller's loop
ReturnFromReadError(stk) == Tail(stk)

\* the position after a return that leaves stk
After(stk) == IF stk = <<>> THEN "walk_done" ELSE "walk"

\* if config.max_depth != 0 && current_depth > config.max_depth { return; }
ReturnDepthExceeded ==
    /\ pc = "walk" /\ stack # <<>>
    /\ Head(stack).at = "enter"
    /\ DepthExceeded(config.max_depth, Head(stack).current_depth)
    /\ stack' = Tail(stack)
    /\ pc' = After(stack')
    /\ UNCHANGED <<config, lines, openable, entry, listing, entries, fs, out,
                   read_dirs>>

\* fs::read_dir fails: the error line, and return
ReadDirError ==
    /\ pc = "walk" /\ stack # <<>>
    /\ Head(stack).at = "enter"
    /\ ~DepthExceeded(config.max_depth, Head(stack).current_depth)
    /\ ~IsSome(fs[Head(stack).dir].read_dir)
    /\ read_dirs' = Append(read_dirs, ReadDir(Head(stack).dir, "entries"))
    /\ out' = Append(out, ErrorReading(Head(stack).dir))
    /\ stack' = ReturnFromReadError(stack)
    /\ pc' = After(stack')
    /\ UNCHANGED <<config, lines, openable, entry, listing, entries, fs>>

\* fs::read_dir succeeds: the loop that builds entries, and sort_entries
ListDir ==
    /\ pc = "walk" /\ stack # <<>>
    /\ Head(stack).at = "enter"
    /\ ~DepthExceeded(config.max_depth, Head(stack).current_depth)
    /\ IsSome(fs[Head(stack).dir].read_dir)
    /\ read_dirs' = Append(read_dirs, ReadDir(Head(stack).dir, "entries"))
    /\ stack' = <<Frame(Head(stack).dir, Head(stack).current_depth, "loop",
                        SortedEntries(fs, config, Head(stack).dir))>>
                \o Tail(stack)
    /\ UNCHANGED <<config, lines, openable, entry, listing, entries, fs, out, pc>>

\* the loop over entries, at a directory: its line, and the recursive call
PrintDirEntry ==
    /\ pc = "walk" /\ stack # <<>>
    /\ Head(stack).at = "loop"
    /\ Head(stack).entries # <<>>
    /\ Head(Head(stack).entries).is_dir
    /\ read_dirs' = read_dirs \o ItemCount(config.sort_by, Head(Head(stack).entries).path)
    /\ out' = Append(out, DirLine(Head(Head(stack).entries).path))
    /\ stack' = <<Frame(Head(Head(stack).entries).path,
                        Head(stack).current_depth + 1, "enter", <<>>),
                  [Head(stack) EXCEPT !.entries = Tail(@)]>>
                \o Tail(stack)
    /\ UNCHANGED <<config, lines, openable, entry, listing, entries, fs, pc>>

\* the loop over entries, at a file: its line and, if asked for, its content
PrintFileEntry ==
    /\ pc = "walk" /\ stack # <<>>
    /\ Head(stack).at = "loop"
    /\ Head(stack).entries # <<>>
    /\ ~Head(Head(stack).entries).is_dir
    /\ out' = out \o PrintFile(fs, config, Head(Head(stack).entries))
    /\ stack' = <<[Head(stack) EXCEPT !.entries = Tail(@)]>> \o Tail(stack)
    /\ UNCHANGED <<config, lines, openable, entry, listing, entries, fs, pc,
                   read_dirs>>

\* the end of the loop over entries: the call returns
ReturnEndOfLoop ==
    /\ pc = "walk" /\ stack # <<>>
    /\ Head(stack).at = "loop"
    /\ Head(stack).entries = <<>>
    /\ stack' = Tail(stack)
    /\ pc' = After(stack')
    /\ UNCHANGED <<config, lines, openable, entry, listing, entries, fs, out,
                   read_dirs>>

----------------------------------------------------------------------------
(* Values of the variables a specification does not use. *)

IdleConfig ==
    [max_depth |-> 1, exclude_dirs |-> <<>>, show_content |-> FALSE,
     max_file_size |-> 0, file_types |-> <<>>, sort_by |-> "Name",
     sort_direction |-> "Asc", sort_dirs_first |-> TRUE,
     content_filter |-> None, content_context |-> 0, whole_file |-> FALSE]

----------------------------------------------------------------------------
(* The content extractor on its own: every file of up to MaxLines lines,    *)
(* every pattern, context and whole_file.                                  *)

LineTexts == {Str_foo, Str_TODO_fix}
Patterns == {None, Some(Str_TODO), Some(Str_xyz)}
Files == UNION {[1..n -> LineTexts] : n \in 0..MaxLines}

InitContent ==
    /\ pc = "content"
    /\ \E p \in Patterns, c \in 0..MaxContext, w \in BOOLEAN :
          config = [IdleConfig EXCEPT !.show_content = TRUE,
                                      !.content_filter = p,
                                      !.content_context = c,
                                      !.whole_file = w]
    /\ openable \in BOOLEAN
    /\ lines \in (IF openable THEN Files ELSE {<<>>})
    /\ entry = <<>> /\ listing = <<>> /\ entries = <<>>
    /\ fs = <<>> /\ stack = <<>> /\ out = <<>> /\ read_dirs = <<>>

CallFilterAndPrintContent ==
    /\ pc = "content"
    /\ out' = FilterAndPrintContent(openable, lines, config.content_filter,
                                    config.content_context, config.whole_file)
    /\ pc' = "content_done"
    /\ UNCHANGED <<config, lines, openable, entry, listing, entries, fs, stack,
                   read_dirs>>

NextContent == CallFilterAndPrintContent

SpecContent == InitContent /\ [][NextContent]_vars

----------------------------------------------------------------------------
(* The filter on its own: every kind of entry the walker can classify,      *)
(* under every list of up to MaxFilters filters.                           *)

\* is_dir as print_tree computes it, from the entry's own metadata
IsDir(f) == Unwrap(f.lstat).file_type = "dir"

Predicates ==
    {Str_ext_py, Str_ext_none, Str_group_web, Str_group_nosuch, Str_binary,
     Str_text, Str_dir, Str_hidden, Str_empty, Str_all, Str_socket, Str_pipe,
     Str_symlink, Str_device, Str_executable, Str_archive, Str_bogus}
FilterLists == UNION {[1..n -> Predicates] : n \in 0..MaxFilters}

\* a regular file: empty or not, executable or not, of some content
RegularFiles ==
    {[lstat |-> Some(Metadata("file", len, mode, Some(1))),
      stat |-> Some(Metadata("file", len, mode, Some(1))),
      mime |-> mime] :
        len \in {0, 2}, mode \in {420, 493},
        mime \in {Some(Str_text_plain), Some(Str_application_zip), None}}
\* a socket, a pipe, a block or a character device
SpecialFiles ==
    {[lstat |-> Some(Metadata(t, 0, 420, Some(1))),
      stat |-> Some(Metadata(t, 0, 420, Some(1))),
      mime |-> None] : t \in {"socket", "fifo", "block", "char"}}
Directory ==
    [lstat |-> Some(Metadata("dir", 2, 493, Some(1))),
     stat |-> Some(Metadata("dir", 2, 493, Some(1))),
     mime |-> Some(Str_inode_directory)]
\* a symlink to nothing, to a text file and to a directory
Symlinks ==
    {[lstat |-> Some(Metadata("symlink", 1, 511, Some(1))),
      stat |-> None, mime |-> None],
     [lstat |-> Some(Metadata("symlink", 1, 511, Some(1))),
      stat |-> Some(Metadata("file", 2, 420, Some(1))),
      mime |-> Some(Str_text_plain)],
     [lstat |-> Some(Metadata("symlink", 1, 511, Some(1))),
      stat |-> Some(Metadata("dir", 2, 493, Some(1))),
      mime |-> Some(Str_inode_directory)]}
FilterNames == {Str_a_py, Str_x_html, Str_hidden_file, Str_lnk}
FilterEntries ==
    {FileRec(name, k.lstat, k.stat, k.mime, None, None) :
        name \in FilterNames,
        k \in RegularFiles \cup SpecialFiles \cup {Directory} \cup Symlinks}

Returned(value) == [kind |-> "return", value |-> value]

InitFilter ==
    /\ pc = "filter"
    /\ \E fts \in FilterLists : config = [IdleConfig EXCEPT !.file_types = fts]
    /\ entry \in FilterEntries
    /\ lines = <<>> /\ openable = FALSE /\ listing = <<>> /\ entries = <<>>
    /\ fs = <<>> /\ stack = <<>> /\ out = <<>> /\ read_dirs = <<>>

CallMatchesTypeFilter ==
    /\ pc = "filter"
    /\ out' = <<Returned(MatchesTypeFilter(entry, config.file_types, IsDir(entry)))>>
    /\ pc' = "filter_done"
    /\ UNCHANGED <<config, lines, openable, entry, listing, entries, fs, stack,
                   read_dirs>>

NextFilter == CallMatchesTypeFilter

SpecFilter == InitFilter /\ [][NextFilter]_vars

----------------------------------------------------------------------------
(* The sorter on its own: every listing of up to MaxEntries entries of a    *)
(* directory, under every key, direction and dirs_first.                   *)

SortFields == {"Name", "Date", "Size", "Type", "Ext"}
SortDirections == {"Asc", "Desc"}

\* entries as print_tree builds them: two directories and three files, with
\* ties on every key but the name
SortPool ==
    {DirEntryExt(<<Str_sub>>, TRUE, 0, Some(3), None, Str_inode_directory),
     DirEntryExt(<<Str_deep>>, TRUE, 0, Some(1), None, Str_inode_directory),
     DirEntryExt(<<Str_a_py>>, FALSE, 2, Some(2), Some(<<"p","y">>), Str_text_plain),
     DirEntryExt(<<Str_b_txt>>, FALSE, 2, None, Some(<<"t","x","t">>), Str_text_plain),
     DirEntryExt(<<Str_lnk>>, FALSE, 1, Some(2), None, Str_octet_stream)}
Listings ==
    {l \in UNION {[1..n -> SortPool] : n \in 0..MaxEntries} :
        \A i, j \in 1..Len(l) : i # j => l[i] # l[j]}

InitSort ==
    /\ pc = "sort"
    /\ \E k \in SortFields, d \in SortDirections, df \in BOOLEAN :
          config = [IdleConfig EXCEPT !.sort_by = k, !.sort_direction = d,
                                      !.sort_dirs_first = df]
    /\ listing \in Listings
    /\ entries = listing
    /\ lines = <<>> /\ openable = FALSE /\ entry = <<>>
    /\ fs = <<>> /\ stack = <<>> /\ out = <<>> /\ read_dirs = <<>>

CallSortEntries ==
    /\ pc = "sort"
    /\ entries' = SortEntries(entries, config.sort_by, config.sort_direction,
                              config.sort_dirs_first)
    /\ pc' = "sort_done"
    /\ UNCHANGED <<config, lines, openable, entry, listing, fs, stack, out,
                   read_dirs>>

NextSort == CallSortEntries

SpecSort == InitSort /\ [][NextSort]_vars

----------------------------------------------------------------------------
(* The walk: a tree of three levels,                                       *)
(*     ./sub/  ./b.txt  ./a.py  (in the order read_dir yields them)        *)
(*     sub/deep/  sub/lnk  sub/c.py                                        *)
(*     sub/deep/d.py                                                       *)
(* in which a directory may be unreadable, lnk is a symlink to a text file *)
(* or to nothing, and b.txt may have vanished before its metadata is read. *)

\* the default of --max-size
DefaultMaxSize == 100000

RECURSIVE ByteLen(_)
ByteLen(ls) == IF ls = <<>> THEN 0 ELSE Len(Head(ls)) + 1 + ByteLen(Tail(ls))

DirRec(name, modified, read_dir) ==
    FileRec(name, Some(Metadata("dir", 2, 493, Some(modified))),
            Some(Metadata("dir", 2, 493, Some(modified))),
            Some(Str_inode_directory), read_dir, None)
TextFile(name, modified, ls) ==
    FileRec(name, Some(Metadata("file", ByteLen(ls), 420, Some(modified))),
            Some(Metadata("file", ByteLen(ls), 420, Some(modified))),
            Some(Str_text_plain), None, Some(ls))
Vanished(name) == FileRec(name, None, None, None, None, None)
SymlinkToText(name, ls) ==
    FileRec(name, Some(Metadata("symlink", 1, 511, Some(1))),
            Some(Metadata("file", ByteLen(ls), 420, Some(1))),
            Some(Str_text_plain), None, Some(ls))
DanglingSymlink(name) ==
    FileRec(name, Some(Metadata("symlink", 1, 511, Some(1))), None, None, None, None)

\* read_dir of a directory: its entries, or an error
Listed(readable, names) == IF readable THEN Some(names) ELSE None

Tree(root_ok, sub_ok, deep_ok, lnk_ok, b_ok) ==
    (<<>> :> DirRec(<<>>, 5, Listed(root_ok, <<Str_sub, Str_b_txt, Str_a_py>>)))
    @@ (<<Str_sub>> :> DirRec(Str_sub, 4, Listed(sub_ok, <<Str_deep, Str_lnk, Str_c_py>>)))
    @@ (<<Str_b_txt>> :>
            IF b_ok THEN TextFile(Str_b_txt, 2, <<Str_TODO_fix, Str_foo>>)
            ELSE Vanished(Str_b_txt))
    @@ (<<Str_a_py>> :> TextFile(Str_a_py, 3, <<Str_foo>>))
    @@ (<<Str_sub, Str_deep>> :> DirRec(Str_deep, 1, Listed(deep_ok, <<Str_d_py>>)))
    @@ (<<Str_sub, Str_lnk>> :>
            IF lnk_ok THEN SymlinkToText(Str_lnk, <<Str_foo>>)
            ELSE DanglingSymlink(Str_lnk))
    @@ (<<Str_sub, Str_c_py>> :> TextFile(Str_c_py, 2, <<>>))
    @@ (<<Str_sub, Str_deep, Str_d_py>> :> TextFile(Str_d_py, 1, <<Str_TODO_fix>>))

Trees ==
    {Tree(TRUE, s, d, l, b) : s \in BOOLEAN, d \in BOOLEAN, l \in BOOLEAN, b \in BOOLEAN}
    \cup {Tree(FALSE, TRUE, TRUE, TRUE, TRUE)}

ExcludeLists == {<<>>, <<Str_sub>>, <<Str_deep>>, <<Str_b_txt, Str_lnk>>}
WalkFilterLists ==
    {<<>>, <<Str_ext_py>>, <<Str_all>>, <<Str_dir, Str_ext_py>>, <<Str_dir, Str_text>>}
\* sort_by, sort_direction, sort_dirs_first
WalkSorts ==
    {<<"Name", "Asc", TRUE>>, <<"Name", "Desc", TRUE>>,
     <<"Size", "Asc", FALSE>>, <<"Ext", "Desc", FALSE>>}
\* show_content, max_file_size, content_filter, content_context
WalkContents ==
    {<<FALSE, DefaultMaxSize, None, 0>>,
     <<FALSE, 4, None, 0>>,
     <<TRUE, 4, None, 0>>,
     <<TRUE, DefaultMaxSize, Some(Str_TODO), 1>>}

InitWalk ==
    /\ pc = "walk"
    /\ \E d \in 0..MaxDepth, x \in ExcludeLists, fts \in WalkFilterLists,
          s \in WalkSorts, c \in WalkContents :
          config = [max_depth |-> d, exclude_dirs |-> x, show_content |-> c[1],
                    max_file_size |-> c[2], file_types |-> fts, sort_by |-> s[1],
                    sort_direction |-> s[2], sort_dirs_first |-> s[3],
                    content_filter |-> c[3], content_context |-> c[4],
                    whole_file |-> FALSE]
    /\ fs \in Trees
    \* print_tree(&config.project_dir, "", &config, 1)
    /\ stack = <<Frame(<<>>, 1, "enter", <<>>)>>
    /\ out = <<>>
    /\ read_dirs = <<>>
    /\ lines = <<>> /\ openable = FALSE /\ entry = <<>>
    /\ listing = <<>> /\ entries = <<>>

NextWalk ==
    \/ ReturnDepthExceeded
    \/ ReadDirError
    \/ ListDir
    \/ PrintDirEntry
    \/ PrintFileEntry
    \/ ReturnEndOfLoop

SpecWalk == InitWalk /\ [][NextWalk]_vars

\* the program is one thread that runs until main returns: a step that can be
\* taken is taken
SpecWalkFair == InitWalk /\ [][NextWalk]_vars /\ WF_vars(NextWalk)

\* the two models of print_tree agree: the steps print what the function prints
StepsAgreeWithPrintTree ==
    pc = "walk_done" => out = PrintTree(fs, config, <<>>, 1)

----------------------------------------------------------------------------
(* Claims about the content extractor (checked under SpecContent). *)

LineEvents(o) == SelectSeq(o, LAMBDA e : e.kind = "line")
LineNums(o) == [i \in 1..Len(LineEvents(o)) |-> LineEvents(o)[i].num]
\* the lines of the file the pattern matches
MatchSet ==
    IF IsSome(config.content_filter)
    THEN {i \in 1..Len(lines) : RegexIsMatch(Unwrap(config.content_filter), lines[i])}
    ELSE {}
ExtractedWithPattern ==
    pc = "content_done" /\ openable /\ IsSome(config.content_filter)
ExtractedWholeFile == ExtractedWithPattern /\ config.whole_file
ExtractedWindowed == ExtractedWithPattern /\ ~config.whole_file

\* C1 as stated: with a pattern and whole_file, the lines printed are the
\* lines 1..total_lines, each once and in order, whatever the pattern matches.
C1_WholeFileEveryLine ==
    ExtractedWholeFile => LineNums(out) = [i \in 1..Len(lines) |-> i]

\* C1 amended: with a pattern and whole_file, the lines printed are the lines
\* 1..total_lines, each once and in order, when the pattern matches at least
\* one line; when it matches none, no line is printed and "No matches found"
\* is reported.
C1_WholeFileIfAnyMatch ==
    ExtractedWholeFile =>
        IF MatchSet # {}
        THEN LineNums(out) = [i \in 1..Len(lines) |-> i]
        ELSE LineEvents(out) = <<>> /\ out[Len(out)] = NoMatches

C1_Witness ==
    /\ ExtractedWholeFile
    /\ Len(lines) >= 3
    /\ MatchSet # {} /\ MatchSet # 1..Len(lines)
    /\ Len(LineEvents(out)) = Len(lines)

\* C2: in windowed extraction the printed line numbers are strictly
\* increasing (no line is printed twice: touching or overlapping windows
\* are merged).
C2_WindowsMerged ==
    ExtractedWindowed =>
        \A i \in 1..(Len(LineNums(out)) - 1) : LineNums(out)[i] < LineNums(out)[i + 1]

\* C3: in windowed extraction an elision marker stands only between two
\* printed lines with at least one omitted line between them (never before
\* the first window).
C3_ElisionOnlyBetweenWindows ==
    ExtractedWindowed =>
        \A p \in 1..Len(out) :
            out[p].kind = "separator" =>
                /\ p > 1 /\ out[p - 1].kind = "line"
                /\ p < Len(out) /\ out[p + 1].kind = "line"
                /\ out[p + 1].num > out[p - 1].num + 1

\* C4: in windowed extraction a printed line is marked as a match exactly
\* when the pattern matches that line, at every place it is printed.
C4_IsMatchExact ==
    ExtractedWindowed =>
        \A p \in 1..Len(out) :
            out[p].kind = "line" => (out[p].is_match <=> out[p].num \in MatchSet)

----------------------------------------------------------------------------
(* Claims about the filter (checked under SpecFilter). *)

Filtered == pc = "filter_done"
Accepted == out[1].value
\* matches_type_filter(e, [f]) for the i-th filter of the list
AcceptedAlone(i) ==
    MatchesTypeFilter(entry, <<config.file_types[i]>>, IsDir(entry))

\* C6 as stated: for every entry and every filter list, the list accepts the
\* entry exactly when one of its filters, alone, accepts it.
C6_OrOfSingletons ==
    Filtered =>
        (Accepted <=> \E i \in 1..Len(config.file_types) : AcceptedAlone(i))

\* C6 amended: for every entry and every non-empty filter list, the list
\* accepts the entry exactly when one of its filters, alone, accepts it; the
\* empty list accepts every entry.
C6_OrOfSingletonsNonEmpty ==
    Filtered =>
        IF config.file_types = <<>>
        THEN Accepted
        ELSE (Accepted <=> \E i \in 1..Len(config.file_types) : AcceptedAlone(i))

C6_Witness ==
    /\ Filtered
    /\ Len(config.file_types) = 2
    /\ ~AcceptedAlone(1) /\ AcceptedAlone(2)
    /\ Accepted

----------------------------------------------------------------------------
(* Claims about the sorter (checked under SpecSort). *)

Sorted == pc = "sort_done"

\* C5: with dirs_first, direction Asc puts every directory before every
\* non-directory, and direction Desc every non-directory before every
\* directory.
C5_DirsFirstAscFilesFirstDesc ==
    (Sorted /\ config.sort_dirs_first) =>
        \A i, j \in 1..Len(entries) :
            i < j =>
                IF config.sort_direction = "Asc"
                THEN ~(~entries[i].is_dir /\ entries[j].is_dir)
                ELSE ~(entries[i].is_dir /\ ~entries[j].is_dir)

\* the directories of a listing, in the order of the listing
DirsOf(s) == SelectSeq(s, LAMBDA e : e.is_dir)
\* a sequence read from its end
Backwards(s) == [i \in 1..Len(s) |-> s[Len(s) + 1 - i]]
SortedBySize == Sorted /\ config.sort_by = "Size"

\* C11: when sorting by Size the directories all have size 0 and appear among
\* themselves in their encounter order, for both directions and for both
\* values of dirs_first.
C11_DirsKeepEncounterOrder ==
    SortedBySize =>
        /\ \A i \in 1..Len(entries) : entries[i].is_dir => entries[i].size = 0
        /\ DirsOf(entries) = DirsOf(listing)

\* C11 as the program has it: when sorting by Size the directories all have
\* size 0 and appear among themselves in their encounter order when the
\* direction is Asc, and in the reverse of their encounter order when the
\* direction is Desc, for both values of dirs_first.
C11_DirsKeepEncounterOrderAscReversedDesc ==
    SortedBySize =>
        /\ \A i \in 1..Len(entries) : entries[i].is_dir => entries[i].size = 0
        /\ config.sort_direction = "Asc" => DirsOf(entries) = DirsOf(listing)
        /\ config.sort_direction = "Desc" =>
               DirsOf(entries) = Backwards(DirsOf(listing))

\* two directories and a file between them were sorted by Size, descending
C11_Witness ==
    /\ SortedBySize
    /\ config.sort_direction = "Desc"
    /\ Len(DirsOf(listing)) = 2
    /\ Len(listing) = 3
    /\ ~listing[2].is_dir
    /\ DirsOf(entries) # DirsOf(listing)

----------------------------------------------------------------------------
(* Claims about the walk (checked under SpecWalk). *)

Walked == pc = "walk_done"
\* the paths below the root
EntryPaths == DOMAIN fs \ {<<>>}
Parent(p) == SubSeq(p, 1, Len(p) - 1)
BaseName(p) == p[Len(p)]
\* the depth of an entry: 1 for the children of the root
Depth(p) == Len(p)
IsEntryLine(e) == e.kind = "dir" \/ e.kind = "file"
EntryLines(o) == SelectSeq(o, IsEntryLine)
Emitted(p) == \E i \in 1..Len(out) : IsEntryLine(out[i]) /\ out[i].path = p
\* the basename is in the exclude set
NameExcluded(p) ==
    \E k \in 1..Len(config.exclude_dirs) : config.exclude_dirs[k] = BaseName(p)
\* not excluded, metadata readable, accepted by the filter list
Survives(p) ==
    /\ ~NameExcluded(p)
    /\ IsSome(fs[p].lstat)
    /\ MatchesTypeFilter(fs[p], config.file_types, IsDir(fs[p]))
WithinDepth(p) == config.max_depth = 0 \/ Depth(p) <= config.max_depth
\* the parent is the root or a directory that was emitted
ParentEmitted(p) ==
    Parent(p) = <<>> \/ (Emitted(Parent(p)) /\ IsDir(fs[Parent(p)]))
\* read_dir succeeds on the parent
ParentListed(p) == IsSome(fs[Parent(p)].read_dir)

\* C7: with depth bound n > 0 only entries of depth <= n are emitted; with
\* depth bound 0 every entry that survives exclusion, metadata and filter
\* and lies in the root or in an emitted, readable directory is emitted,
\* however deep.
C7_DepthBound ==
    /\ config.max_depth # 0 =>
          \A i \in 1..Len(out) :
              IsEntryLine(out[i]) => Depth(out[i].path) <= config.max_depth
    /\ (Walked /\ config.max_depth = 0) =>
          \A p \in EntryPaths :
              (Survives(p) /\ ParentEmitted(p) /\ ParentListed(p)) => Emitted(p)

\* bound 1 on a tree with grandchildren: the directory is emitted, its
\* child, which would otherwise be emitted, is not
C7_Witness ==
    /\ Walked
    /\ config.max_depth = 1
    /\ Emitted(<<Str_sub>>)
    /\ \E p \in EntryPaths :
          /\ Parent(p) = <<Str_sub>>
          /\ Survives(p) /\ ParentListed(p)
          /\ ~Emitted(p)

\* C8 as stated: an entry is emitted exactly when its name is not excluded,
\* its metadata is readable, the filter list accepts it, it is within the
\* depth bound and its parent is the root or an emitted directory.
C8_EmittedIff ==
    Walked =>
        \A p \in EntryPaths :
            Emitted(p) <=> (Survives(p) /\ WithinDepth(p) /\ ParentEmitted(p))

\* C8 amended: an entry is emitted exactly when its name is not excluded,
\* its metadata is readable, the filter list accepts it, it is within the
\* depth bound, its parent is the root or an emitted directory, and the
\* parent directory could be read.
C8_EmittedIffParentListed ==
    Walked =>
        \A p \in EntryPaths :
            Emitted(p) <=>
                (Survives(p) /\ WithinDepth(p) /\ ParentEmitted(p) /\ ParentListed(p))

\* root {a.py, b.txt, sub/}, filter [ext:py], exclude [sub]: exactly a.py
C8_Witness ==
    /\ Walked
    /\ config.file_types = <<Str_ext_py>>
    /\ config.exclude_dirs = <<Str_sub>>
    /\ IsSome(fs[<<Str_b_txt>>].lstat)
    /\ {p \in EntryPaths : Emitted(p)} = {<<Str_a_py>>}

IsErrorLine(e) == e.kind = "error_reading_directory"
NotErrorLine(e) == ~IsErrorLine(e)
\* the file system with every unreadable directory readable and empty
EmptiedWhereUnreadable(F) ==
    [p \in DOMAIN F |->
        IF IsSome(F[p].lstat) /\ IsDir(F[p]) /\ ~IsSome(F[p].read_dir)
        THEN [F[p] EXCEPT !.read_dir = Some(<<>>)]
        ELSE F[p]]
\* a directory the walk tried to read, and could not
FailedToRead(d) ==
    /\ IsSome(fs[d].lstat) /\ IsDir(fs[d])
    /\ d = <<>> \/ Emitted(d)
    /\ config.max_depth = 0 \/ Depth(d) + 1 <= config.max_depth
    /\ ~IsSome(fs[d].read_dir)

\* C9: for every directory the walk fails to read, an error line is printed
\* and no child of it is emitted; and apart from the error lines the walk
\* prints exactly what it prints when those directories are empty, in the
\* same order.
C9_ReadFailureNonFatal ==
    Walked =>
        /\ \A d \in DOMAIN fs :
              FailedToRead(d) =>
                  /\ \E i \in 1..Len(out) : out[i] = ErrorReading(d)
                  /\ \A p \in EntryPaths : Parent(p) = d => ~Emitted(p)
        /\ SelectSeq(out, NotErrorLine)
              = PrintTree(EmptiedWhereUnreadable(fs), config, <<>>, 1)

\* sub/ cannot be read, and an entry of the root is emitted after its error
C9_Witness ==
    /\ Walked
    /\ FailedToRead(<<Str_sub>>)
    /\ \E i, j \in 1..Len(out) :
          /\ i < j
          /\ out[i] = ErrorReading(<<Str_sub>>)
          /\ IsEntryLine(out[j])

\* C10: the walk with the filter list [all] emits the entries the walk with
\* the empty filter list emits.
C10_AllAcceptsEverything ==
    (Walked /\ config.file_types = <<Str_all>>) =>
        EntryLines(out)
            = EntryLines(PrintTree(fs, [config EXCEPT !.file_types = <<>>], <<>>, 1))

----------------------------------------------------------------------------
(* Claims about the content of the files the walk prints (SpecWalk). *)

\* what filter_and_print_content prints
IsContentEvent(e) ==
    e.kind \in {"cannot_read", "total_lines", "no_matches", "line", "separator"}
FileEmitted(p) == \E i \in 1..Len(out) : out[i].kind = "file" /\ out[i].path = p
ContentAttempted(p) ==
    \E i \in 1..Len(out) : out[i].kind = "content_start" /\ out[i].path = p
MarkerEmitted(p) ==
    \E i \in 1..Len(out) : out[i].kind = "file_not_displayed" /\ out[i].path = p
\* out[i] was printed by the extraction that was started for p
InContentOf(i, p) ==
    \E j \in 1..(i - 1) :
        /\ out[j].kind = "content_start" /\ out[j].path = p
        /\ \A k \in (j + 1)..(i - 1) : out[k].kind # "content_end"
\* the size print_tree records for the entry
RecordedSize(p) ==
    LET metadata == Unwrap(fs[p].lstat)
    IN IF metadata.file_type = "dir" THEN 0 ELSE metadata.len
\* the entry is one for which extraction may be attempted
MayExtract(p) ==
    /\ IsSome(fs[p].lstat)
    /\ Unwrap(fs[p].lstat).file_type # "dir"
    /\ config.show_content
    /\ RecordedSize(p) <= config.max_file_size
    /\ StartsWith(MimeOf(fs[p]), Str_text_)
\* every line of content belongs to an extraction that was allowed
ExtractionOnlyWhereAllowed ==
    /\ \A p \in EntryPaths : ContentAttempted(p) => MayExtract(p)
    /\ \A i \in 1..Len(out) :
          IsContentEvent(out[i]) =>
              \E p \in EntryPaths : InContentOf(i, p) /\ MayExtract(p)
TooLarge(p) == FileEmitted(p) /\ RecordedSize(p) > config.max_file_size
NothingOfContent(p) ==
    /\ ~ContentAttempted(p)
    /\ \A i \in 1..Len(out) : ~InContentOf(i, p)

\* C12: content extraction is attempted only for a non-directory entry with
\* show_content set, size <= max_file_size and textual content; for every
\* emitted file with size > max_file_size no line of its content is read or
\* emitted and a 'file not displayed' marker is emitted instead.
C12_ContentBoundedMarkerAlways ==
    /\ ExtractionOnlyWhereAllowed
    /\ \A p \in EntryPaths :
          TooLarge(p) => (NothingOfContent(p) /\ MarkerEmitted(p))

\* C12 as the program has it: content extraction is attempted only for a
\* non-directory entry with show_content set, size <= max_file_size and
\* textual content; for every emitted file with size > max_file_size no line
\* of its content is read or emitted, and the 'file not displayed' marker is
\* emitted for it exactly when show_content is set.
C12_ContentBoundedMarkerIfShowContent ==
    /\ ExtractionOnlyWhereAllowed
    /\ \A p \in EntryPaths :
          TooLarge(p) =>
              (NothingOfContent(p) /\ (MarkerEmitted(p) <=> config.show_content))
    /\ \A p \in EntryPaths : MarkerEmitted(p) => TooLarge(p)

\* a walk with show_content has printed the content of one file and the
\* marker of another, larger one
C12_Witness ==
    /\ Walked
    /\ config.show_content
    /\ \E p, q \in EntryPaths :
          /\ TooLarge(p) /\ MarkerEmitted(p)
          /\ FileEmitted(q) /\ ContentAttempted(q)
          /\ RecordedSize(q) <= config.max_file_size
          /\ \E i \in 1..Len(out) : out[i].kind = "line" /\ InContentOf(i, q)

----------------------------------------------------------------------------
(* Claims about the termination of the walk (checked under SpecWalkFair). *)

\* how often fs::read_dir was called on d, for the given purposes
ReadsOf(d, purposes) ==
    Cardinality({i \in 1..Len(read_dirs) :
                    read_dirs[i].dir = d /\ read_dirs[i].purpose \in purposes})
ListedAtMostOnce ==
    \A d \in DOMAIN fs : ReadsOf(d, {"entries", "count"}) <= 1
ListedOnceAndCountedUnderSize ==
    \A d \in DOMAIN fs :
        /\ ReadsOf(d, {"entries"}) <= 1
        /\ ReadsOf(d, {"count"}) <= (IF config.sort_by = "Size" THEN 1 ELSE 0)
        /\ ReadsOf(d, {"count"}) = 1 => Emitted(d)

\* C13: for every tree, depth bound (0 = unlimited), exclude set and filter
\* list, the walk started at depth 1 on the root terminates, and each
\* directory is listed at most once during it.
C13_TerminatesListedOnce ==
    <>Walked /\ []ListedAtMostOnce

\* C13 as the program has it: the walk terminates; each directory is listed
\* at most once for its entries, and an emitted directory is listed once
\* more, for its item count, when and only when the sort key is Size.
C13_TerminatesListedOncePlusCount ==
    <>Walked /\ []ListedOnceAndCountedUnderSize

\* an unlimited walk sorted by Size has ended after it listed sub/deep twice:
\* once for the item count of its line and once for its entries
C13_Witness ==
    /\ Walked
    /\ config.max_depth = 0
    /\ config.sort_by = "Size"
    /\ ReadsOf(<<Str_sub, Str_deep>>, {"entries"}) = 1
    /\ ReadsOf(<<Str_sub, Str_deep>>, {"count"}) = 1
    /\ Emitted(<<Str_sub, Str_deep, Str_d_py>>)

====
